---- MODULE Spec2Model ----
(***************************************************************************)
(* Wajeez meeting-intelligence backend (src/server.js).                    *)
(*                                                                         *)
(* Text is modelled as a sequence of tokens.  A token is one of the        *)
(* characters that matter to the fence-stripping regular expression and to *)
(* JSON.parse (backtick, newline, double quote, braces, brackets, colon,   *)
(* comma), or a word: a maximal run of other characters.  No word other    *)
(* than "json" itself begins with the letters json.                        *)
(*                                                                         *)
(* A JavaScript value is a record [t, s, n, a, o]: t is the type tag, s    *)
(* the tokens of a string, n a number, a the elements of an array and o    *)
(* the properties of an object in insertion order.                         *)
(***************************************************************************)
EXTENDS Integers, Sequences, FiniteSets, TLC

BT == "BACKTICK"
NL == "\n"
QT == "\""

\* ------------------------------------------------------------------ bounds
MaxStrLen == 3
MaxTasks == 2

\* ------------------------------------------------------- JavaScript values
Undefined == [t |-> "undefined", s |-> <<>>, n |-> 0, a |-> <<>>, o |-> <<>>]
JTrue == [t |-> "boolean", s |-> <<>>, n |-> 1, a |-> <<>>, o |-> <<>>]
JNull == [t |-> "null", s |-> <<>>, n |-> 0, a |-> <<>>, o |-> <<>>]
Str(toks) == [t |-> "string", s |-> toks, n |-> 0, a |-> <<>>, o |-> <<>>]
Lit(word) == Str(<<word>>)
Num(k) == [t |-> "number", s |-> <<>>, n |-> k, a |-> <<>>, o |-> <<>>]
Arr(elems) == [t |-> "array", s |-> <<>>, n |-> 0, a |-> elems, o |-> <<>>]
Obj(props) == [t |-> "object", s |-> <<>>, n |-> 0, a |-> <<>>, o |-> props]
P(name, val) == [k |-> <<name>>, v |-> val]

HasKey(props, key) == \E i \in 1..Len(props) : props[i].k = key

\* obj[key] = val on a property list: an existing key keeps its position.
SetKey(props, key, val) ==
  IF HasKey(props, key)
  THEN [i \in 1..Len(props) |-> IF props[i].k = key THEN [k |-> key, v |-> val] ELSE props[i]]
  ELSE Append(props, [k |-> key, v |-> val])

\* x.name for a value x that is neither null nor undefined.
Get(x, name) ==
  IF x.t = "object" /\ HasKey(x.o, <<name>>)
  THEN x.o[CHOOSE i \in 1..Len(x.o) : x.o[i].k = <<name>>].v
  ELSE Undefined

SetProp(x, name, val) == Obj(SetKey(x.o, <<name>>, val))

\* ------------------------------------------------ text.replace(/```json\n?|\n?```/g, '')
At(text, i) == IF i >= 1 /\ i <= Len(text) THEN text[i] ELSE "<eof>"
Has(text, i, pat) == \A j \in 1..Len(pat) : At(text, i + j - 1) = pat[j]

\* Length of the match of the pattern that starts at i, 0 when there is none.
\* The first alternative is tried first and \n? takes the newline when it can.
MatchLen(text, i) ==
  IF Has(text, i, <<BT, BT, BT, "json">>) THEN (IF At(text, i + 4) = NL THEN 5 ELSE 4)
  ELSE IF At(text, i) = NL /\ Has(text, i + 1, <<BT, BT, BT>>) THEN 4
  ELSE IF Has(text, i, <<BT, BT, BT>>) THEN 3
  ELSE 0

\* The global replace: the leftmost match at or after i is removed and the
\* scan goes on after it.
RECURSIVE StripFrom(_, _)
StripFrom(text, i) ==
  LET starts == {j \in i..Len(text) : MatchLen(text, j) > 0}
      m == CHOOSE j \in starts : \A l \in starts : j <= l
  IN IF starts = {} THEN SubSeq(text, i, Len(text))
     ELSE SubSeq(text, i, m - 1) \o StripFrom(text, m + MatchLen(text, m))

StripFences(text) == StripFrom(text, 1)

\* ------------------------------------------------------------- JSON.parse
Digits == [w \in {"0", "1", "2", "3", "5", "7"} |->
            CASE w = "0" -> 0 [] w = "1" -> 1 [] w = "2" -> 2
              [] w = "3" -> 3 [] w = "5" -> 5 [] w = "7" -> 7]

Fail == [ok |-> FALSE, v |-> Undefined, i |-> 0]
Got(val, next) == [ok |-> TRUE, v |-> val, i |-> next]

RECURSIVE SkipWs(_, _)
SkipWs(text, i) == IF At(text, i) = NL THEN SkipWs(text, i + 1) ELSE i

\* Index of the closing quote of the string whose content starts at i, or 0.
RECURSIVE StringEnd(_, _)
StringEnd(text, i) ==
  IF At(text, i) = QT THEN i
  ELSE IF At(text, i) \in {"<eof>", NL} THEN 0
  ELSE StringEnd(text, i + 1)

ParseString(text, i) ==
  LET e == StringEnd(text, i + 1)
  IN IF At(text, i) = QT /\ e > 0 THEN Got(Str(SubSeq(text, i + 1, e - 1)), e + 1) ELSE Fail

RECURSIVE ParseValue(_, _)
RECURSIVE ParseElements(_, _, _)
RECURSIVE ParseMembers(_, _, _)

\* text[i] is the first token of a value.
ParseValue(text, i) ==
  LET tok == At(text, i)
  IN CASE tok = "{" ->
            LET j == SkipWs(text, i + 1)
            IN IF At(text, j) = "}" THEN Got(Obj(<<>>), j + 1) ELSE ParseMembers(text, j, <<>>)
       [] tok = "[" ->
            LET j == SkipWs(text, i + 1)
            IN IF At(text, j) = "]" THEN Got(Arr(<<>>), j + 1) ELSE ParseElements(text, j, <<>>)
       [] tok = QT -> ParseString(text, i)
       [] tok = "null" -> Got(JNull, i + 1)
       [] tok \in DOMAIN Digits -> Got(Num(Digits[tok]), i + 1)
       [] OTHER -> Fail

ParseElements(text, i, acc) ==
  LET r == ParseValue(text, i)
      j == SkipWs(text, r.i)
  IN IF ~r.ok THEN Fail
     ELSE IF At(text, j) = "]" THEN Got(Arr(Append(acc, r.v)), j + 1)
     ELSE IF At(text, j) = "," THEN ParseElements(text, SkipWs(text, j + 1), Append(acc, r.v))
     ELSE Fail

ParseMembers(text, i, acc) ==
  LET key == ParseString(text, i)
      c == SkipWs(text, key.i)
      r == ParseValue(text, SkipWs(text, c + 1))
      j == SkipWs(text, r.i)
      props == SetKey(acc, key.v.s, r.v)
  IN IF ~key.ok \/ At(text, c) # ":" THEN Fail
     ELSE IF ~r.ok THEN Fail
     ELSE IF At(text, j) = "}" THEN Got(Obj(props), j + 1)
     ELSE IF At(text, j) = "," THEN ParseMembers(text, SkipWs(text, j + 1), props)
     ELSE Fail

\* [ok |-> FALSE] stands for the SyntaxError JSON.parse throws.
JSONParse(text) ==
  LET r == ParseValue(text, SkipWs(text, 1))
  IN IF r.ok /\ SkipWs(text, r.i) > Len(text) THEN [ok |-> TRUE, v |-> r.v]
     ELSE [ok |-> FALSE, v |-> Undefined]

\* JSON.parse(text.replace(/```json\n?|\n?```/g, ''))
ParseReply(text) == JSONParse(StripFences(text))

\* ------------------------------------------------- Model Gateway outcomes
\* What awaiting model.generateContent(...) and response.text() yields: an
\* exception with a message, or the reply text.
Throw(m) == [throws |-> TRUE, msg |-> m, text |-> <<>>]
Reply(toks) == [throws |-> FALSE, msg |-> "", text |-> toks]

\* ------------------------------------------------------ analysis functions
SummaryFallback ==
  Obj(<<P("overview", Lit("Failed to parse summary")), P("keyPoints", Arr(<<>>)),
        P("decisions", Arr(<<>>)), P("insights", Arr(<<>>)), P("outcomes", Arr(<<>>)),
        P("nextSteps", Arr(<<>>))>>)

SummaryError(m) ==
  Obj(<<P("error", Lit("Failed to generate summary")), P("message", Lit(m))>>)

\* A summary function whose parse failure surfaces as its error object.
generateMeetingSummaryNoFallback(out) ==
  IF out.throws THEN SummaryError(out.msg)
  ELSE LET r == ParseReply(out.text) IN IF r.ok THEN r.v ELSE SummaryError("Unexpected token")

generateMeetingSummary(out) ==
  IF out.throws THEN SummaryError(out.msg)
  ELSE LET r == ParseReply(out.text) IN IF r.ok THEN r.v ELSE SummaryFallback

TasksFallback ==
  Obj(<<P("tasks", Arr(<<>>)), P("followUpItems", Arr(<<>>)), P("totalTasks", Num(0)),
        P("highPriorityCount", Num(0)), P("assignedCount", Num(0)),
        P("unassignedCount", Num(0))>>)

TasksError ==
  Obj(<<P("error", Lit("Failed to extract tasks")), P("tasks", Arr(<<>>)),
        P("followUpItems", Arr(<<>>))>>)

IsHigh(t) == Get(t, "priority") = Lit("high")
IsUnassigned(t) == Get(t, "assignedTo") = Lit("Unassigned")
IsAssigned(t) == Get(t, "assignedTo") # Lit("Unassigned")

\* data.tasks.filter(...).length, for each of the three filters
CountHigh(elems) == Cardinality({i \in 1..Len(elems) : IsHigh(elems[i])})
CountAssigned(elems) == Cardinality({i \in 1..Len(elems) : IsAssigned(elems[i])})
CountUnassigned(elems) == Cardinality({i \in 1..Len(elems) : IsUnassigned(elems[i])})

\* The four assignments of the try block.  They raise a TypeError, caught by
\* the same try, when data is null, data.tasks is null or undefined,
\* data.tasks has no filter method (it is not an array) or an element of
\* data.tasks is null.
CountsRaise(data) ==
  \/ data.t = "null"
  \/ Get(data, "tasks").t # "array"
  \/ \E i \in 1..Len(Get(data, "tasks").a) : Get(data, "tasks").a[i].t = "null"

WithCounts(data) ==
  LET tasks == Get(data, "tasks").a
      d1 == SetProp(data, "totalTasks", Num(Len(tasks)))
      d2 == SetProp(d1, "highPriorityCount", Num(CountHigh(tasks)))
      d3 == SetProp(d2, "assignedCount", Num(CountAssigned(tasks)))
  IN SetProp(d3, "unassignedCount", Num(CountUnassigned(tasks)))

extractTasks(out) ==
  IF out.throws THEN TasksError
  ELSE LET r == ParseReply(out.text)
       IN IF r.ok /\ ~CountsRaise(r.v) THEN WithCounts(r.v) ELSE TasksFallback

ImprovementsFallback ==
  Obj(<<P("effectivenessScore", Num(0)), P("scoreRationale", Lit("Unable to analyze")),
        P("strengths", Arr(<<>>)), P("improvements", Obj(<<>>)),
        P("recommendations", Arr(<<>>)), P("bestPractices", Arr(<<>>))>>)

ImprovementsError(m) ==
  Obj(<<P("error", Lit("Failed to generate improvements")), P("message", Lit(m))>>)

generateImprovements(out) ==
  IF out.throws THEN ImprovementsError(out.msg)
  ELSE LET r == ParseReply(out.text) IN IF r.ok THEN r.v ELSE ImprovementsFallback

FactCheckFallback ==
  Obj(<<P("transcriptionQuality",
          Obj(<<P("rating", Lit("unknown")), P("score", Num(0)), P("issues", Arr(<<>>))>>)),
        P("potentialErrors", Arr(<<>>)), P("factualClaims", Arr(<<>>)),
        P("inconsistencies", Arr(<<>>)), P("dataPoints", Arr(<<>>)),
        P("technicalTerms", Arr(<<>>)), P("recommendations", Arr(<<>>))>>)

FactCheckError(m) ==
  Obj(<<P("error", Lit("Failed to perform fact-check")), P("message", Lit(m))>>)

factCheckTranscription(out) ==
  IF out.throws THEN FactCheckError(out.msg)
  ELSE LET r == ParseReply(out.text) IN IF r.ok THEN r.v ELSE FactCheckFallback

Analyse(kind, out) ==
  CASE kind = "summary" -> generateMeetingSummary(out)
    [] kind = "tasks" -> extractTasks(out)
    [] kind = "improvements" -> generateImprovements(out)
    [] kind = "factCheck" -> factCheckTranscription(out)

\* ---------------------------------------------------------------- bounds
MaxRequests == 2
MaxClock == 2
MaxFaults == 2

\* delay(1000)
DelayMs == 1000

Requests == 1..MaxRequests

\* req.file.originalname of an upload.  Requests are interchangeable, so the
\* first one always uploads the same name.
Names(r) == IF r = 1 THEN {"a.wav"} ELSE {"a.wav", "b.mp3"}

Fenced(body) == <<BT, BT, BT, "json", NL>> \o body \o <<NL, BT, BT, BT>>

GoodReply(kind) ==
  CASE kind = "summary" ->
         Fenced(<<"{", QT, "overview", QT, ":", QT, "Ship by Friday", QT, "}">>)
    [] kind = "tasks" ->
         Fenced(<<"{", QT, "tasks", QT, ":", "[", "{", QT, "priority", QT, ":", QT, "high", QT,
                  ",", QT, "assignedTo", QT, ":", QT, "Unassigned", QT, "}", "]", ",",
                  QT, "totalTasks", QT, ":", "7", "}">>)
    [] kind = "improvements" ->
         Fenced(<<"{", QT, "effectivenessScore", QT, ":", "7", "}">>)
    [] kind = "factCheck" ->
         Fenced(<<"{", QT, "recommendations", QT, ":", "[", "]", "}">>)

\* The outcomes a model call of the pipeline may have; a trace names them by
\* their place in this list.
Outcomes(kind) ==
  IF kind = "transcribe"
  THEN <<Throw("503 Service Unavailable"), Reply(<<>>),
         Reply(<<"Speaker 1: Let's ship by Friday.">>)>>
  ELSE IF kind = "chat"
  THEN <<Throw("503 Service Unavailable"), Reply(<<"They decided to ship by Friday.">>)>>
  ELSE <<Throw("503 Service Unavailable"), Reply(<<"Sorry, I cannot help with that.">>),
         Reply(GoodReply(kind))>>

\* An analysis result that is the error object or the fallback of its kind:
\* the upstream call did not deliver what the pipeline hoped for.
IsFailure(kind, res) ==
  \/ Get(res, "error") # Undefined
  \/ res = (CASE kind = "summary" -> SummaryFallback [] kind = "tasks" -> TasksFallback
              [] kind = "improvements" -> ImprovementsFallback
              [] kind = "factCheck" -> FactCheckFallback)

VARIABLES
  clock,            \* Date.now(), in milliseconds
  files,            \* the paths that exist in the uploads directory
  meetingDatabase,  \* the Map, as its entries [k, v] in insertion order
  req,              \* the process-audio requests: position, locals, response
  puts,             \* every meetingDatabase.set so far: [r, id], in order
  faults,           \* upstream and file-system failures so far
  kind, reply, result, returned   \* one analysis call on its own

vars == <<clock, files, meetingDatabase, req, puts, faults, kind, reply, result, returned>>
server == <<clock, files, meetingDatabase, req, puts, faults>>
single == <<kind, reply, result, returned>>

NoFile == [t |-> 0, name |-> ""]

\* A request slot: the route it came in on, the position of its handler, what
\* the client sent (file, body, :id), the handler's locals and the response.
NewRequest ==
  [route |-> "", pc |-> "idle", hasFile |-> FALSE, mimetype |-> "", originalname |-> "",
   path |-> NoFile, message |-> Undefined, param |-> Undefined, meeting |-> Undefined,
   prompt |-> <<>>, res |-> Undefined, sent |-> 0,
   meetingId |-> Undefined, transcription |-> Undefined, summary |-> Undefined,
   tasks |-> Undefined, improvements |-> Undefined, factCheck |-> Undefined,
   timestamp |-> Undefined, err |-> "", status |-> 0, trace |-> <<>>]

\* The events of a request's trace: a model call is issued with the
\* transcription text its prompt embeds, a model call settles with its
\* outcome (its place in Outcomes), a delay of ms milliseconds has been awaited.
CallEv(k, arg) == [e |-> "call", k |-> k, ms |-> 0, arg |-> arg, out |-> 0]
ReturnEv(k, i) == [e |-> "return", k |-> k, ms |-> 0, arg |-> <<>>, out |-> i]
DelayEv(ms) == [e |-> "delay", k |-> "", ms |-> ms, arg |-> <<>>, out |-> 0]

\* Date.now().toString() and new Date().toISOString()
DateNowString(t) == Lit(ToString(t))
ISOString(t) == Str(<<"T", ToString(t), "Z">>)

InitSingle ==
  /\ kind = "none"
  /\ reply = [throws |-> FALSE, msg |-> "", pre |-> <<>>, body |-> <<>>, suf |-> <<>>]
  /\ result = Undefined
  /\ returned = FALSE

InitServer ==
  /\ clock = 1
  /\ files = {}
  /\ meetingDatabase = <<>>
  /\ req = [r \in Requests |-> NewRequest]
  /\ puts = <<>>
  /\ faults = 0

Init == InitServer /\ InitSingle

\* res.status(code).json(...): the body sent with each status is Body below;
\* sent counts the responses of the request.
Respond(rq, code) == [rq EXCEPT !.pc = "done", !.status = code, !.sent = @ + 1]

\* A catch block that answers without removing the uploaded file.
CatchNoCleanup(rq, msg, disk) == Respond([rq EXCEPT !.err = msg], 500)

\* The handler's catch block up to its first await.
Catch(rq, msg, disk) ==
  IF rq.hasFile /\ rq.path \in disk
  THEN [rq EXCEPT !.pc = "catchUnlink", !.err = msg]
  ELSE Respond([rq EXCEPT !.err = msg], 500)

\* What the next reading of the system clock may return: time has moved on
\* by zero or more milliseconds since the last reading.
Readings == clock..MaxClock

\* file.mimetype as the client declares it for a file of that name
MimeOf(name) ==
  CASE name = "a.wav" -> "audio/wav" [] name = "b.mp3" -> "audio/mpeg"
    [] name = "c.pdf" -> "application/pdf"

allowedTypes ==
  {"audio/mpeg", "audio/wav", "audio/mp3", "audio/m4a", "audio/webm", "audio/mp4",
   "audio/ogg", "audio/flac"}

\* fileFilter: cb(null, true), or cb(new Error(...)) which multer hands to
\* next(err) so that the route handler never runs.
fileFilter(mimetype) == mimetype \in allowedTypes

\* Express's default error handler answers an error given to next(err).
DefaultErrorStatus == 500

\* upload.single('audio'): the request arrives and multer filters and stores
\* its file.
Upload(r) ==
  /\ req[r].pc = "idle"
  /\ \/ /\ req' = [req EXCEPT ![r].route = "process-audio", ![r].pc = "handler"]
        /\ UNCHANGED <<clock, files>>
     \/ \E name \in Names(r) \cup {"c.pdf"}, now \in Readings :
          LET path == [t |-> now, name |-> name]
          IN IF fileFilter(MimeOf(name))
             THEN /\ clock' = now
                  /\ files' = files \cup {path}
                  /\ req' = [req EXCEPT ![r].route = "process-audio", ![r].pc = "handler",
                                        ![r].hasFile = TRUE, ![r].mimetype = MimeOf(name),
                                        ![r].originalname = name, ![r].path = path]
             ELSE /\ req' = [req EXCEPT ![r] =
                       Respond([@ EXCEPT !.route = "process-audio",
                                         !.mimetype = MimeOf(name),
                                         !.err = "Invalid file type. Only audio files are allowed."],
                               DefaultErrorStatus)]
                  /\ UNCHANGED <<clock, files>>
  /\ UNCHANGED <<meetingDatabase, puts, faults, single>>

\* A handler that goes on to read the file whether or not one was attached.
EnterUnchecked(r) ==
  /\ req[r].pc = "handler"
  /\ \E now \in Readings :
       /\ clock' = now
       /\ req' = [req EXCEPT ![r].pc = "readFile", ![r].meetingId = DateNowString(now)]
  /\ UNCHANGED <<files, meetingDatabase, puts, faults, single>>

\* The handler up to its first await, fs.readFile in transcribeWithGemini.
Enter(r) ==
  /\ req[r].pc = "handler"
  /\ IF ~req[r].hasFile
     THEN /\ req' = [req EXCEPT ![r] = Respond(@, 400)]
          /\ UNCHANGED clock
     ELSE \E now \in Readings :
            /\ clock' = now
            /\ req' = [req EXCEPT ![r].pc = "readFile", ![r].meetingId = DateNowString(now)]
  /\ UNCHANGED <<files, meetingDatabase, puts, faults, single>>

\* fs.readFile settles; on success the transcription call is issued.
ReadFileDone(r) ==
  /\ req[r].pc = "readFile"
  /\ req' = [req EXCEPT ![r] =
       IF @.path \in files
       THEN [@ EXCEPT !.pc = "transcribe",
                      !.trace = Append(@, CallEv("transcribe", <<>>))]
       ELSE Catch(@, "Failed to transcribe audio with Gemini: ENOENT", files)]
  /\ UNCHANGED <<clock, files, meetingDatabase, puts, faults, single>>

\* The handler without its check of an empty transcription.
TranscriptionFailedUnchecked(out) == out.throws

\* transcribeWithGemini rethrows what the call throws, and the handler throws
\* on a falsy transcription.
TranscriptionFailed(out) == out.throws \/ out.text = <<>>

TranscriptionError(out) ==
  IF out.throws THEN "Failed to transcribe audio with Gemini: " \o out.msg
  ELSE "Failed to transcribe audio"

\* The failures so far, after a step that failed (bad) or did not; a step
\* that fails needs room under MaxFaults.
Faulted(bad) ==
  /\ bad => faults < MaxFaults
  /\ faults' = IF bad THEN faults + 1 ELSE faults

\* The transcription call settles; with a text the summary call is issued.
TranscribeReturn(r) ==
  /\ req[r].pc = "transcribe"
  /\ \E i \in DOMAIN Outcomes("transcribe") :
       LET out == Outcomes("transcribe")[i]
           rq == [req[r] EXCEPT !.trace = Append(@, ReturnEv("transcribe", i))]
       IN /\ Faulted(TranscriptionFailed(out))
          /\ req' = [req EXCEPT ![r] =
               IF TranscriptionFailed(out)
               THEN Catch(rq, TranscriptionError(out), files)
               ELSE [rq EXCEPT !.pc = "summary", !.transcription = Str(out.text),
                               !.trace = Append(@, CallEv("summary", out.text))]]
  /\ UNCHANGED <<clock, files, meetingDatabase, puts, single>>

\* The handler takes the result res of analysis k, whose outcome was the
\* i-th, into its local and runs to its next await.
AnalysisSettled(r, k, field, next, i, res) ==
  /\ Faulted(IsFailure(k, res))
  /\ req' = [req EXCEPT ![r] =
       [@ EXCEPT !.pc = next, ![field] = res, !.trace = Append(@, ReturnEv(k, i))]]

\* An analysis call settles and the handler runs to its next await, a delay.
AnalysisReturn(r, k, field, next) ==
  /\ req[r].pc = k
  /\ \E i \in DOMAIN Outcomes(k) :
       AnalysisSettled(r, k, field, next, i, Analyse(k, Outcomes(k)[i]))
  /\ UNCHANGED <<clock, files, meetingDatabase, puts, single>>

SummaryReturn(r) == AnalysisReturn(r, "summary", "summary", "delay1")

TasksReturn(r) == AnalysisReturn(r, "tasks", "tasks", "delay2")

ImprovementsReturn(r) == AnalysisReturn(r, "improvements", "improvements", "delay3")

\* A handler that asks for the improvements before the tasks.
AfterDelaySwapped(pc) ==
  CASE pc = "delay1" -> "improvements" [] pc = "delay2" -> "tasks" [] pc = "delay3" -> "factCheck"

\* A handler that asks for the tasks once more after the second delay.
AfterDelayRepeat(pc) ==
  CASE pc = "delay1" -> "tasks" [] pc = "delay2" -> "tasks" [] pc = "delay3" -> "factCheck"

\* The analysis whose call follows the delay awaited at pc.
AfterDelay(pc) ==
  CASE pc = "delay1" -> "tasks" [] pc = "delay2" -> "improvements" [] pc = "delay3" -> "factCheck"

\* await delay(1000) is over and the next analysis call is issued.
DelayDone(r) ==
  /\ req[r].pc \in {"delay1", "delay2", "delay3"}
  /\ req' = [req EXCEPT ![r] =
       [@ EXCEPT !.pc = AfterDelay(@),
                 !.trace = @ \o <<DelayEv(DelayMs),
                                   CallEv(AfterDelay(req[r].pc), req[r].transcription.s)>>]]
  /\ UNCHANGED <<clock, files, meetingDatabase, puts, faults, single>>

MeetingData(rq, fc, now) ==
  Obj(<<P("id", rq.meetingId), P("filename", Lit(rq.originalname)),
        P("timestamp", ISOString(now)), P("transcription", rq.transcription),
        P("summary", rq.summary), P("tasks", rq.tasks),
        P("improvements", rq.improvements), P("factCheck", fc)>>)

\* meetingDatabase.set(key, value)
MapSet(db, key, value) == SetKey(db, key, value)

SuccessBody(rq) ==
  Obj(<<P("success", JTrue), P("meetingId", rq.meetingId),
        P("transcription", rq.transcription), P("summary", rq.summary),
        P("tasks", rq.tasks), P("improvements", rq.improvements),
        P("factCheck", rq.factCheck), P("filename", Lit(rq.originalname)),
        P("timestamp", rq.timestamp)>>)

\* The body of the response the request was answered with (filesize, which
\* nothing else reads, is left out of the success body).
Body(rq) ==
  CASE rq.res # Undefined -> rq.res
    [] rq.mimetype # "" /\ ~fileFilter(rq.mimetype) -> Lit("Error: " \o rq.err)
    [] rq.status = 200 -> SuccessBody(rq)
    [] rq.status = 400 -> Obj(<<P("error", Lit("No audio file uploaded"))>>)
    [] rq.status = 500 ->
         Obj(<<P("error", Lit("Failed to process audio file")), P("details", Lit(rq.err))>>)
    [] OTHER -> Undefined

\* The fact-check call settles; the meeting is stored and the handler runs to
\* fs.unlink, or to its response when the file is already gone.
\* A handler that ends without an answer when the file is already gone.
AfterStoreSilent(rq) ==
  IF rq.path \in files THEN [rq EXCEPT !.pc = "unlink"] ELSE [rq EXCEPT !.pc = "returned"]

\* if (fsSync.existsSync(filePath)) await fs.unlink(filePath), else the 200.
AfterStore(rq) == IF rq.path \in files THEN [rq EXCEPT !.pc = "unlink"] ELSE Respond(rq, 200)

\* The handler takes the fact-check result fc, whose outcome was the i-th,
\* builds meetingData at the clock reading now and stores it.
StoreMeeting(r, i, now, fc) ==
  /\ Faulted(IsFailure("factCheck", fc))
  /\ clock' = now
  /\ meetingDatabase' =
       MapSet(meetingDatabase, req[r].meetingId.s, MeetingData(req[r], fc, now))
  /\ puts' = Append(puts, [r |-> r, id |-> req[r].meetingId])
  /\ req' = [req EXCEPT ![r] =
       AfterStore([@ EXCEPT !.factCheck = fc, !.timestamp = ISOString(now),
                            !.trace = Append(@, ReturnEv("factCheck", i))])]

FactCheckReturn(r) ==
  /\ req[r].pc = "factCheck"
  /\ \E i \in DOMAIN Outcomes("factCheck"), now \in Readings :
       StoreMeeting(r, i, now, Analyse("factCheck", Outcomes("factCheck")[i]))
  /\ UNCHANGED <<files, single>>

\* await fs.unlink(filePath) settles: the file is removed and the request is
\* answered, or unlink rejects and the catch block runs.
UnlinkDone(r) ==
  /\ req[r].pc = "unlink"
  /\ \E ok \in BOOLEAN :
       /\ Faulted(~ok)
       /\ IF ok /\ req[r].path \in files
          THEN /\ files' = files \ {req[r].path}
               /\ req' = [req EXCEPT ![r] = Respond(@, 200)]
          ELSE /\ files' = files
               /\ req' = [req EXCEPT ![r] =
                    Catch(@, IF ok THEN "ENOENT: no such file or directory"
                             ELSE "EPERM: operation not permitted", files)]
  /\ UNCHANGED <<clock, meetingDatabase, puts, single>>

\* await fs.unlink(req.file.path).catch(() => {}) settles, then the 500.
CatchUnlinkDone(r) ==
  /\ req[r].pc = "catchUnlink"
  /\ \E ok \in BOOLEAN :
       /\ Faulted(~ok)
       /\ files' = IF ok THEN files \ {req[r].path} ELSE files
  /\ req' = [req EXCEPT ![r] = Respond(@, 500)]
  /\ UNCHANGED <<clock, meetingDatabase, puts, single>>

\* ------------------------------------------------------ read-only handlers
Reverse(seq) == [i \in 1..Len(seq) |-> seq[Len(seq) + 1 - i]]

\* Characters a token stands for.
Width(tok) == IF tok \in {BT, NL, QT} THEN 1 ELSE Len(tok)

\* str.substring(0, n), for strings whose n-th character ends a token.
RECURSIVE Substring(_, _)
Substring(toks, n) ==
  IF toks = <<>> \/ Width(Head(toks)) > n THEN <<>>
  ELSE <<Head(toks)>> \o Substring(Tail(toks), n - Width(Head(toks)))

SummaryChars == 200

MeetingView(m) ==
  Obj(<<P("id", Get(m, "id")), P("filename", Get(m, "filename")),
        P("timestamp", Get(m, "timestamp")),
        P("summary", Str(Substring(Get(m, "summary").s, SummaryChars) \o <<"...">>))>>)

\* GET /api/meetings: m.summary.substring raises a TypeError, which Express
\* answers with a 500, unless every stored summary is a string.
getMeetings(db) ==
  IF \E i \in 1..Len(db) : Get(db[i].v, "summary").t # "string"
  THEN [status |-> 500, body |-> Lit("TypeError: m.summary.substring is not a function")]
  ELSE [status |-> 200,
        body |-> Obj(<<P("success", JTrue),
                       P("meetings", Arr(Reverse([i \in 1..Len(db) |-> MeetingView(db[i].v)])))>>)]

\* meetingDatabase.get(id)
MapGet(db, key) ==
  IF HasKey(db, key) THEN db[CHOOSE i \in 1..Len(db) : db[i].k = key].v ELSE Undefined

\* GET /api/meeting/:id
getMeeting(db, id) ==
  IF MapGet(db, id) = Undefined
  THEN [status |-> 404, body |-> Obj(<<P("error", Lit("Meeting not found"))>>)]
  ELSE [status |-> 200, body |-> Obj(<<P("success", JTrue), P("meeting", MapGet(db, id))>>)]

\* ------------------------------------------------------------ GET handlers
\* The ids a client asks for: ids the clock can produce and one it cannot.
AskedIds == {Lit(ToString(t)) : t \in 1..MaxClock} \cup {Lit("9")}

\* app.get('/api/meetings'), a synchronous handler
GetMeetings(r) ==
  /\ req[r].pc = "idle"
  /\ req' = [req EXCEPT ![r] =
       Respond([@ EXCEPT !.route = "meetings", !.res = getMeetings(meetingDatabase).body],
               getMeetings(meetingDatabase).status)]
  /\ UNCHANGED <<clock, files, meetingDatabase, puts, faults, single>>

\* app.get('/api/meeting/:id'), a synchronous handler
GetMeeting(r) ==
  /\ req[r].pc = "idle"
  /\ \E id \in AskedIds :
       req' = [req EXCEPT ![r] =
         Respond([@ EXCEPT !.route = "meeting", !.param = id,
                           !.res = getMeeting(meetingDatabase, id.s).body],
                 getMeeting(meetingDatabase, id.s).status)]
  /\ UNCHANGED <<clock, files, meetingDatabase, puts, faults, single>>

\* app.get('/api/health'); gemini_configured, set by the environment, is left
\* out of the body.
GetHealth(r) ==
  /\ req[r].pc = "idle"
  /\ req' = [req EXCEPT ![r] =
       Respond([@ EXCEPT !.route = "health",
                         !.res = Obj(<<P("status", Lit("OK")), P("version", Lit("3.0"))>>)],
               200)]
  /\ UNCHANGED <<clock, files, meetingDatabase, puts, faults, single>>

\* -------------------------------------------------------------------- chat
\* String(x), as a template literal or + converts a value to text.
RECURSIVE ToJSString(_)
RECURSIVE JoinElems(_)
JoinElems(elems) ==
  IF elems = <<>> THEN <<>>
  ELSE (IF Head(elems).t \in {"null", "undefined"} THEN <<>> ELSE ToJSString(Head(elems)))
       \o (IF Len(elems) > 1 THEN <<",">> \o JoinElems(Tail(elems)) ELSE <<>>)

ToJSString(x) ==
  CASE x.t = "string" -> x.s
    [] x.t = "number" -> <<ToString(x.n)>>
    [] x.t = "array" -> JoinElems(x.a)
    [] x.t = "object" -> <<"[object Object]">>
    [] OTHER -> <<x.t>>

\* The template literal of the context block
ContextBlock(meeting) ==
  <<NL, "Context from the meeting:", NL, "Transcription: ">>
  \o ToJSString(Get(meeting, "transcription"))
  \o <<NL, "Summary: ">> \o ToJSString(Get(meeting, "summary"))
  \o <<NL, "Tasks: ">> \o ToJSString(Get(meeting, "tasks"))
  \o <<NL, NL, "Based on this meeting context, please answer the following question:", NL>>

LanguageDirective == <<NL, NL, "IMPORTANT: Respond in ENGLISH only.">>

\* !x for the values a JSON body can hold in message or meetingId
Falsy(x) == x.t \in {"undefined", "null"} \/ (x.t = "string" /\ x.s = <<>>)

\* A chat that takes its context from the latest meeting whatever the body names.
ChatMeetingLatest(db, meetingId) == IF db = <<>> THEN Undefined ELSE db[Len(db)].v

\* The meeting the context is built from, Undefined when there is none:
\* meetingId && meetingDatabase.has(meetingId), then meetingDatabase.get.
ChatMeeting(db, meetingId) ==
  IF ~Falsy(meetingId) /\ HasKey(db, meetingId.s) THEN MapGet(db, meetingId.s) ELSE Undefined

\* context + message + the directive
ChatPrompt(meeting, message) ==
  (IF meeting = Undefined THEN <<>> ELSE ContextBlock(meeting))
  \o ToJSString(message) \o LanguageDirective

\* The bodies of chat requests: message missing, empty or a question, with
\* no meetingId, one the clock can produce or one it cannot.
Messages == {Undefined, Str(<<>>), Str(<<"What was decided?">>)}
ChatIds == {Undefined, Lit("1"), Lit("9")}

\* app.post('/api/chat') up to its await of model.generateContent(prompt)
ChatEnter(r) ==
  /\ req[r].pc = "idle"
  /\ \E message \in Messages, meetingId \in ChatIds :
       LET rq == [req[r] EXCEPT !.route = "chat", !.message = message, !.param = meetingId]
       IN req' = [req EXCEPT ![r] =
            IF Falsy(message)
            THEN Respond([rq EXCEPT !.res = Obj(<<P("error", Lit("No message provided"))>>)],
                         400)
            ELSE [rq EXCEPT !.pc = "chat",
                            !.meeting = ChatMeeting(meetingDatabase, meetingId),
                            !.prompt = ChatPrompt(ChatMeeting(meetingDatabase, meetingId),
                                                  message),
                            !.trace = <<CallEv("chat", <<>>)>>]]
  /\ UNCHANGED <<clock, files, meetingDatabase, puts, faults, single>>

\* A chat handler that reports every settled call as a success.
ChatAnswerAlwaysOK(out) ==
  [status |-> 200,
   body |-> Obj(<<P("success", JTrue), P("response", Str(out.text))>>)]

\* res.json({success, response: response.text()}), or the catch block
ChatAnswer(out) ==
  IF out.throws
  THEN [status |-> 500,
        body |-> Obj(<<P("error", Lit("Failed to process chat message")),
                       P("details", Lit(out.msg))>>)]
  ELSE [status |-> 200,
        body |-> Obj(<<P("success", JTrue), P("response", Str(out.text))>>)]

\* A chat handler that keeps its answer in the record of the meeting it was
\* asked about.
ChatReturnRecording(r) ==
  /\ req[r].pc = "chat"
  /\ \E i \in DOMAIN Outcomes("chat") :
       req' = [req EXCEPT ![r] =
         Respond([@ EXCEPT !.res = ChatAnswer(Outcomes("chat")[i]).body,
                           !.trace = Append(@, ReturnEv("chat", i))],
                 ChatAnswer(Outcomes("chat")[i]).status)]
  /\ meetingDatabase' =
       IF req[r].meeting = Undefined THEN meetingDatabase
       ELSE MapSet(meetingDatabase, req[r].param.s,
                   SetProp(req[r].meeting, "lastAnswer", req'[r].res))
  /\ UNCHANGED <<clock, files, puts, faults, single>>

\* The model call of a chat request settles and the request is answered.
ChatReturn(r) ==
  /\ req[r].pc = "chat"
  /\ \E i \in DOMAIN Outcomes("chat") :
       req' = [req EXCEPT ![r] =
         Respond([@ EXCEPT !.res = ChatAnswer(Outcomes("chat")[i]).body,
                           !.trace = Append(@, ReturnEv("chat", i))],
                 ChatAnswer(Outcomes("chat")[i]).status)]
  /\ UNCHANGED <<clock, files, meetingDatabase, puts, faults, single>>

\* ------------------------------------------- one analysis call on its own
\* The reply texts an analysis function is tried on: a body, bare or between
\* code-fence markers.
StrAlphabet == {BT, "a", "json"}
Strings == UNION {[1..n -> StrAlphabet] : n \in 0..MaxStrLen}

ObjectText(str) == <<"{", QT, "overview", QT, ":", QT>> \o str \o <<QT, "}">>

TaskText(t) ==
  <<"{", QT, "priority", QT, ":", QT, t.priority, QT, ",",
    QT, "assignedTo", QT, ":", QT, t.assignedTo, QT, "}">>

RECURSIVE JoinTasks(_)
JoinTasks(ts) ==
  IF Len(ts) = 0 THEN <<>>
  ELSE IF Len(ts) = 1 THEN TaskText(ts[1])
  ELSE TaskText(ts[1]) \o <<",">> \o JoinTasks(Tail(ts))

\* A task-list reply whose counters are the model's own claim.
TasksText(ts, claimed) ==
  <<"{", QT, "tasks", QT, ":", "[">> \o JoinTasks(ts) \o
  <<"]", ",", QT, "totalTasks", QT, ":", claimed, ",", QT, "assignedCount", QT, ":", claimed, "}">>

TaskChoices == [priority : {"high", "low"}, assignedTo : {"Unassigned", "Sara"}]
TaskLists == UNION {[1..n -> TaskChoices] : n \in 0..MaxTasks}

OddTexts ==
  { <<>>, <<"Sorry, I cannot help with that.">>, <<"{", QT, "overview", QT>>,
    <<"{", QT, "overview", QT, ":", QT, "line", NL, "break", QT, "}">>,
    <<"null">>, <<"7">>, <<QT, "All went well", QT>>, <<"[", "]">>, <<"{", "}">>,
    <<"{", QT, "tasks", QT, ":", "null", "}">>,
    <<"{", QT, "tasks", QT, ":", "[", "null", "]", "}">>,
    <<"{", QT, "tasks", QT, ":", "[", "7", ",", QT, "call Sara", QT, "]", "}">>,
    <<"{", QT, "tasks", QT, ":", QT, "none", QT, "}">>,
    <<"{", NL, QT, "tasks", QT, ":", "{", "}", NL, "}">> }

Bodies ==
  {ObjectText(str) : str \in Strings}
    \cup {TasksText(ts, c) : ts \in TaskLists, c \in {"0", "7"}}
    \cup OddTexts

OpenFences == {<<BT, BT, BT, "json">>, <<BT, BT, BT, "json", NL>>}
CloseFences == {<<BT, BT, BT>>, <<NL, BT, BT, BT>>}

ReplyText(rep) == rep.pre \o rep.body \o rep.suf
OutcomeOf(rep) == IF rep.throws THEN Throw(rep.msg) ELSE Reply(ReplyText(rep))

InitCall ==
  /\ kind \in {"summary", "tasks", "improvements", "factCheck"}
  /\ \/ reply = [throws |-> TRUE, msg |-> "503 Service Unavailable",
                 pre |-> <<>>, body |-> <<>>, suf |-> <<>>]
     \/ \E pre \in OpenFences \cup {<<>>}, body \in Bodies, suf \in CloseFences \cup {<<>>} :
          reply = [throws |-> FALSE, msg |-> "", pre |-> pre, body |-> body, suf |-> suf]
  /\ result = Undefined
  /\ returned = FALSE

\* The analysis function of the kind runs on the outcome of its model call.
RunAnalysis ==
  /\ ~returned
  /\ kind # "none"
  /\ result' = Analyse(kind, OutcomeOf(reply))
  /\ returned' = TRUE
  /\ UNCHANGED <<kind, reply, server>>

InitAnalysis == InitServer /\ InitCall

SpecAnalysis == InitAnalysis /\ [][RunAnalysis]_vars

Next ==
  \/ \E r \in Requests :
       \/ Upload(r)
       \/ Enter(r)
       \/ ReadFileDone(r)
       \/ TranscribeReturn(r)
       \/ SummaryReturn(r)
       \/ TasksReturn(r)
       \/ ImprovementsReturn(r)
       \/ DelayDone(r)
       \/ FactCheckReturn(r)
       \/ UnlinkDone(r)
       \/ CatchUnlinkDone(r)
       \/ GetMeetings(r)
       \/ GetMeeting(r)
       \/ GetHealth(r)
       \/ ChatEnter(r)
       \/ ChatReturn(r)

Spec == Init /\ [][Next]_vars

\* The steps a request takes once it has arrived, but for the settling of
\* an analysis call: each is the start of the handler, which the event loop
\* runs when it is due, or the settling of a promise the handler awaits (a
\* file operation, the transcription or chat call, a delay).
Proceed(r) ==
  \/ Enter(r)
  \/ ReadFileDone(r)
  \/ TranscribeReturn(r)
  \/ DelayDone(r)
  \/ UnlinkDone(r)
  \/ CatchUnlinkDone(r)
  \/ ChatReturn(r)

\* The request awaits an analysis call: SummaryReturn, TasksReturn,
\* ImprovementsReturn or FactCheckReturn is enabled, whatever the store holds,
\* since a call may always return a good reply.
AwaitsAnalysis(r) ==
  req[r].route = "process-audio"
  /\ req[r].pc \in {"summary", "tasks", "improvements", "factCheck"}

\* The step in which the analysis call the request awaits settles.
AnalysisSettles(r) == AwaitsAnalysis(r) /\ req'[r].pc # req[r].pc

\* Every awaited operation settles in the end.  For the analysis calls this is
\* weak fairness of their return actions, written out with AwaitsAnalysis for
\* the enabling condition.
FairSpec ==
  /\ Spec
  /\ \A r \in Requests : WF_vars(Proceed(r))
  /\ \A r \in Requests : []<>(~AwaitsAnalysis(r)) \/ []<><<AnalysisSettles(r)>>_vars


\* ================================================================ properties
AnalysisKinds == {"summary", "tasks", "improvements", "factCheck"}

Returned(r, k) == \E i \in 1..Len(req[r].trace) : req[r].trace[i].e = "return" /\ req[r].trace[i].k = k
Called(r, k) == \E i \in 1..Len(req[r].trace) : req[r].trace[i].e = "call" /\ req[r].trace[i].k = k
OutcomeFor(r, k) ==
  Outcomes(k)[req[r].trace[CHOOSE i \in 1..Len(req[r].trace) :
                             req[r].trace[i].e = "return" /\ req[r].trace[i].k = k].out]
PutsBy(r) == {i \in 1..Len(puts) : puts[i].r = r}
ResultOf(rq, k) ==
  CASE k = "summary" -> rq.summary [] k = "tasks" -> rq.tasks
    [] k = "improvements" -> rq.improvements [] k = "factCheck" -> rq.factCheck
Fallback(k) ==
  CASE k = "summary" -> SummaryFallback [] k = "tasks" -> TasksFallback
    [] k = "improvements" -> ImprovementsFallback [] k = "factCheck" -> FactCheckFallback
Malformed(out) == ~out.throws /\ ~JSONParse(StripFences(out.text)).ok

\* C1: a request whose transcription call failed or returned empty text is
\* answered with 500 and nothing else, issues none of the four analysis calls
\* and adds no Meeting to the store.
C1_TranscriptionFailureAborts ==
  \A r \in Requests :
    (Returned(r, "transcribe")
       /\ (OutcomeFor(r, "transcribe").throws \/ OutcomeFor(r, "transcribe").text = <<>>))
    => /\ req[r].status \in {0, 500}
       /\ req[r].pc = "done" => req[r].status = 500
       /\ req[r].pc \in {"catchUnlink", "done"}
       /\ \A k \in AnalysisKinds : ~Called(r, k)
       /\ PutsBy(r) = {}

C1_Witness ==
  \E r \in Requests :
    /\ Returned(r, "transcribe")
    /\ ~OutcomeFor(r, "transcribe").throws
    /\ OutcomeFor(r, "transcribe").text = <<>>
    /\ req[r].pc = "done"
    /\ req[r].status = 500

C3_OnlyTranscriptionFatal ==
  \A r \in Requests :
    req[r].transcription # Undefined
    => /\ req[r].status \in {0, 200}
       /\ req[r].pc # "catchUnlink"
       /\ req[r].status = 200 => Get(Body(req[r]), "success") = JTrue /\ PutsBy(r) # {}

\* C4: in every result of the task-extraction step, totalTasks is the length
\* of tasks, highPriorityCount the number of tasks of priority high, and
\* assignedCount + unassignedCount is totalTasks.
C4_TaskCountersDerived ==
  (returned /\ kind = "tasks")
  => LET tasks == Get(result, "tasks").a
     IN /\ Get(result, "tasks").t = "array"
        /\ Get(result, "totalTasks") = Num(Len(tasks))
        /\ Get(result, "highPriorityCount") = Num(CountHigh(tasks))
        /\ Get(result, "assignedCount").t = "number"
        /\ Get(result, "unassignedCount").t = "number"
        /\ Get(result, "assignedCount").n + Get(result, "unassignedCount").n = Len(tasks)

\* C5: the listing answers with one entry per put, in reverse order of the puts.
C5_ListReversesPuts ==
  LET res == getMeetings(meetingDatabase)
      listed == Get(res.body, "meetings").a
  IN /\ res.status = 200
     /\ Len(listed) = Len(puts)
     /\ \A i \in 1..Len(listed) :
          Get(listed[i], "id") = puts[Len(puts) + 1 - i].id

\* C6: when every request has been answered, the store holds as many Meetings
\* as requests were answered with success, and no two of those requests were
\* given the same meeting id.
C6_OneMeetingPerSuccess ==
  (\A r \in Requests : req[r].pc \in {"idle", "done"})
  => LET ok == {r \in Requests : req[r].route = "process-audio" /\ req[r].status = 200}
     IN /\ Len(meetingDatabase) = Cardinality(ok)
        /\ \A r1, r2 \in ok : r1 # r2 => req[r1].meetingId # req[r2].meetingId

\* C7: a step never changes or removes the record stored under an id.
C7_StoredMeetingImmutable ==
  [][\A i \in 1..Len(meetingDatabase) :
       MapGet(meetingDatabase', meetingDatabase[i].k) = meetingDatabase[i].v]_vars

\* C8: the trace of a request is a prefix of: transcription, summary, delay,
\* tasks, delay, improvements, delay, fact-check, each call issued after the
\* one before it has returned, each delay of the fixed length, and nothing
\* after the return of the fact-check.
PipelineOrder ==
  << <<"call", "transcribe">>, <<"return", "transcribe">>,
     <<"call", "summary">>, <<"return", "summary">>, <<"delay", "">>,
     <<"call", "tasks">>, <<"return", "tasks">>, <<"delay", "">>,
     <<"call", "improvements">>, <<"return", "improvements">>, <<"delay", "">>,
     <<"call", "factCheck">>, <<"return", "factCheck">> >>

C8_SequentialWithDelays ==
  \A r \in {q \in Requests : req[q].route = "process-audio"} :
    /\ Len(req[r].trace) <= Len(PipelineOrder)
    /\ \A i \in 1..Len(req[r].trace) :
         /\ <<req[r].trace[i].e, req[r].trace[i].k>> = PipelineOrder[i]
         /\ req[r].trace[i].e = "delay" => req[r].trace[i].ms = DelayMs

C8_Witness ==
  \E r \in Requests :
    /\ Len(req[r].trace) = Len(PipelineOrder)
    /\ req[r].status = 200

\* C9: a valid JSON object text between code-fence markers parses to what the
\* text alone decodes to.
C9_FencedRoundTrip ==
  (/\ returned
   /\ kind \in {"summary", "improvements", "factCheck"}
   /\ ~reply.throws
   /\ reply.pre \in OpenFences
   /\ reply.suf \in CloseFences
   /\ JSONParse(reply.body).ok
   /\ JSONParse(reply.body).v.t = "object")
  => result = JSONParse(reply.body).v

\* C10: in a result substituted on a failure path, every list-valued field of
\* the kind is present and is an empty list.
ListFields(k) ==
  CASE k = "summary" ->
         {"participants", "keyPoints", "decisions", "insights", "outcomes", "nextSteps"}
    [] k = "tasks" -> {"tasks", "followUpItems"}
    [] k = "improvements" -> {"strengths", "recommendations", "bestPractices"}
    [] k = "factCheck" ->
         {"potentialErrors", "factualClaims", "inconsistencies", "dataPoints",
          "technicalTerms", "recommendations"}

ImprovementCategories ==
  {"structure", "communication", "participation", "timeManagement", "decisionMaking"}

C10_FailureListsEmpty ==
  (returned /\ kind # "none" /\ (reply.throws \/ Malformed(OutcomeOf(reply))))
  => /\ \A f \in ListFields(kind) : Get(result, f) = Arr(<<>>)
     /\ kind = "improvements"
          => \A c \in ImprovementCategories : Get(Get(result, "improvements"), c) = Arr(<<>>)
     /\ kind = "factCheck"
          => Get(Get(result, "transcriptionQuality"), "issues") = Arr(<<>>)

\* C11: whatever the store holds, GET /api/meetings answers 200 with success
\* and one entry {id, filename, timestamp, summary} per stored Meeting, the
\* summary being the first 200 characters of the Meeting's summary text and an
\* ellipsis; no GET /api/meetings request is answered with an error.
C11_ListingNeverFails ==
  LET res == getMeetings(meetingDatabase)
      listed == Get(res.body, "meetings").a
  IN /\ res.status = 200
     /\ Get(res.body, "success") = JTrue
     /\ Len(listed) = Len(meetingDatabase)
     /\ \A i \in 1..Len(listed) :
          LET m == meetingDatabase[Len(meetingDatabase) + 1 - i].v
          IN /\ {listed[i].o[j].k : j \in 1..Len(listed[i].o)}
                  = {"id", "filename", "timestamp", "summary"}
             /\ Get(listed[i], "id") = Get(m, "id")
             /\ Get(listed[i], "filename") = Get(m, "filename")
             /\ Get(listed[i], "timestamp") = Get(m, "timestamp")
             /\ Get(m, "summary").t = "string"
             /\ Get(listed[i], "summary")
                  = Str(Substring(Get(m, "summary").s, SummaryChars) \o <<"...">>)
     /\ \A r \in Requests : req[r].route = "meetings" => req[r].status = 200

\* C12: once every request has been answered, GET /api/meeting/:id answers 200
\* with success and the stored record for exactly the ids that a process-audio
\* request answered with 200 carries as its meetingId, and 404 for any other id.
Answered == \A r \in Requests : req[r].pc \in {"idle", "done"}

ReturnedIds ==
  {req[r].meetingId : r \in {q \in Requests : req[q].route = "process-audio"
                                              /\ req[q].status = 200}}

C12_FoundIffReturned ==
  Answered
  => \A id \in AskedIds :
       LET res == getMeeting(meetingDatabase, id.s)
       IN IF id \in ReturnedIds
          THEN /\ res.status = 200
               /\ Get(res.body, "success") = JTrue
               /\ Get(res.body, "meeting") = MapGet(meetingDatabase, id.s)
               /\ Get(Get(res.body, "meeting"), "id") = id
          ELSE res.status = 404

\* C13: a chat request with a message whose meetingId is absent or is no key
\* of the store has as its prompt the message followed by the language
\* directive and nothing else, and has issued exactly one model call.
ChatCalls(r) == Cardinality({i \in 1..Len(req[r].trace) : req[r].trace[i].e = "call"})

Asked(r) == req[r].route = "chat" /\ ~Falsy(req[r].message)

C13_NoContextWhenUnresolved ==
  \A r \in Requests :
    (Asked(r) /\ (Falsy(req[r].param) \/ ~HasKey(meetingDatabase, req[r].param.s)))
    => /\ req[r].prompt = req[r].message.s \o LanguageDirective
       /\ ChatCalls(r) = 1
       /\ req[r].trace[1].k = "chat"

C13_Witness ==
  \E r \in Requests :
    /\ Asked(r)
    /\ req[r].param = Lit("9")
    /\ meetingDatabase # <<>>
    /\ req[r].meeting = Undefined
    /\ req[r].status = 200

\* C14: a chat request whose meetingId resolved has a prompt that holds the
\* meeting's transcription, every text of its summary and every text of its
\* tasks, then the message and the language directive; its 200 response
\* carries the model's text unchanged.
Contains(seq, sub) ==
  \E i \in 0..(Len(seq) - Len(sub)) : SubSeq(seq, i + 1, i + Len(sub)) = sub

\* The texts held by the properties of an object.
TextsOf(x) == {x.o[j].v.s : j \in {i \in 1..Len(x.o) : x.o[i].v.t = "string"}}

EndsWith(seq, sub) ==
  Len(seq) >= Len(sub) /\ SubSeq(seq, Len(seq) - Len(sub) + 1, Len(seq)) = sub

C14_TranscriptionInPrompt ==
  \A r \in Requests :
    (Asked(r) /\ req[r].meeting # Undefined)
    => /\ Contains(req[r].prompt, Get(req[r].meeting, "transcription").s)
       /\ EndsWith(req[r].prompt, req[r].message.s \o LanguageDirective)
       /\ req[r].status = 200
            => req[r].res = Obj(<<P("success", JTrue),
                                  P("response", Str(OutcomeFor(r, "chat").text))>>)

C14_ContextInPrompt ==
  /\ C14_TranscriptionInPrompt
  /\ \A r \in Requests :
       (Asked(r) /\ req[r].meeting # Undefined)
       => /\ \A txt \in TextsOf(Get(req[r].meeting, "summary")) :
               Contains(req[r].prompt, txt)
          /\ \A i \in 1..Len(Get(Get(req[r].meeting, "tasks"), "tasks").a) :
               \A txt \in TextsOf(Get(Get(req[r].meeting, "tasks"), "tasks").a[i]) :
                 Contains(req[r].prompt, txt)

\* C15: a chat request without a message is answered 400 and issues no model
\* call; one whose model call failed is answered 500 with error and details
\* and never with success; one whose model call returned is answered 200 with
\* success and the response.
C15_ChatStatus ==
  \A r \in {q \in Requests : req[q].route = "chat" /\ req[q].pc = "done"} :
    IF Falsy(req[r].message)
    THEN req[r].status = 400 /\ req[r].trace = <<>>
    ELSE /\ Returned(r, "chat")
         /\ IF OutcomeFor(r, "chat").throws
            THEN /\ req[r].status = 500
                 /\ Get(req[r].res, "success") = Undefined
                 /\ Get(req[r].res, "error") # Undefined
                 /\ Get(req[r].res, "details") = Lit(OutcomeFor(r, "chat").msg)
            ELSE /\ req[r].status = 200
                 /\ Get(req[r].res, "success") = JTrue
                 /\ Get(req[r].res, "response") = Str(OutcomeFor(r, "chat").text)

C15_Witness ==
  \E r1, r2 \in Requests :
    /\ req[r1].route = "chat" /\ req[r1].status = 500 /\ OutcomeFor(r1, "chat").throws
    /\ req[r2].route = "chat" /\ req[r2].status = 400 /\ req[r2].message = Undefined

\* C16: an upload whose MIME type the filter refuses is answered 400, issues
\* no model call, stores no Meeting and leaves no file in the uploads directory.
Refused(r) ==
  req[r].route = "process-audio" /\ req[r].mimetype # "" /\ ~fileFilter(req[r].mimetype)

C16_RefusedUploadIs400 ==
  \A r \in Requests :
    Refused(r)
    => /\ req[r].pc = "done"
       /\ req[r].status = 400
       /\ req[r].trace = <<>>
       /\ PutsBy(r) = {}
       /\ req[r].path = NoFile

\* C17: when a process-audio request that stored an upload is answered, with
\* 200 or with 500, its file is no longer in the uploads directory, unless the
\* removal attempted on the way to the 500 itself failed.
C17_FileGoneAtResponse ==
  [][\A r \in Requests :
       (/\ req[r].hasFile
        /\ req[r].pc # "done"
        /\ req'[r].pc = "done"
        /\ ~(req[r].pc = "catchUnlink" /\ faults' > faults))
       => req[r].path \notin files']_vars

C17_Witness ==
  \E r1, r2 \in Requests :
    /\ req[r1].hasFile /\ req[r1].status = 200
    /\ req[r2].hasFile /\ req[r2].status = 500
    /\ files = {}

\* C18: a process-audio request issues each of its five model calls at most
\* once, and all five once it is answered after a transcription that
\* succeeded; a chat request with a message issues exactly one call and one
\* without a message none; no call is issued again after it has failed.
Stages == {"transcribe"} \cup AnalysisKinds

CallsOf(r, k) ==
  Cardinality({i \in 1..Len(req[r].trace) : req[r].trace[i].e = "call" /\ req[r].trace[i].k = k})

C18_EachCallOnce ==
  \A r \in Requests :
    /\ req[r].route = "process-audio"
         => /\ \A k \in Stages : CallsOf(r, k) <= 1
            /\ CallsOf(r, "chat") = 0
            /\ (req[r].pc = "done" /\ req[r].transcription # Undefined)
                 => \A k \in Stages : CallsOf(r, k) = 1
    /\ req[r].route = "chat"
         => /\ \A k \in Stages : CallsOf(r, k) = 0
            /\ CallsOf(r, "chat") = (IF Falsy(req[r].message) THEN 0 ELSE 1)
    /\ req[r].route \notin {"process-audio", "chat"} => req[r].trace = <<>>

C18_Witness ==
  \E r1, r2 \in Requests :
    /\ req[r1].route = "process-audio" /\ req[r1].pc = "done"
    /\ Returned(r1, "tasks") /\ OutcomeFor(r1, "tasks").throws
    /\ \A k \in Stages : CallsOf(r1, k) = 1
    /\ req[r2].route = "chat" /\ req[r2].status = 500 /\ CallsOf(r2, "chat") = 1

\* C19: a process-audio request that came without a file is answered 400, has
\* issued no model call and has put nothing into the store.
C19_NoFileIs400 ==
  \A r \in Requests :
    (req[r].route = "process-audio" /\ req[r].mimetype = "" /\ req[r].pc \notin {"idle", "handler"})
    => /\ req[r].pc = "done"
       /\ req[r].status = 400
       /\ Body(req[r]) = Obj(<<P("error", Lit("No audio file uploaded"))>>)
       /\ req[r].trace = <<>>
       /\ PutsBy(r) = {}

C19_Witness ==
  \E r1, r2 \in Requests :
    /\ req[r1].route = "process-audio" /\ ~req[r1].hasFile /\ req[r1].mimetype = ""
    /\ req[r1].status = 400
    /\ req[r2].status = 200 /\ PutsBy(r2) # {}
    /\ Len(meetingDatabase) = 1

\* C20: the ids of the Meetings grow along the order in which they were put
\* into the store, and along the order in which the store holds them.
IdValue(id) == CHOOSE t \in 1..MaxClock : DateNowString(t) = id

C20_InsertedInIdOrder ==
  /\ \A i, j \in 1..Len(puts) : i < j => IdValue(puts[i].id) < IdValue(puts[j].id)
  /\ \A i, j \in 1..Len(meetingDatabase) :
       i < j => IdValue(Get(meetingDatabase[i].v, "id")) < IdValue(Get(meetingDatabase[j].v, "id"))

\* C21: for a process-audio request answered with 200, each of the four
\* analysis calls was issued with the text its own transcription call
\* returned, and the response carries that transcription, the four results
\* computed from the replies to its own calls and the name of its upload.
Succeeded(r) == req[r].route = "process-audio" /\ req[r].status = 200

\* x carries the transcription, the four results and the upload name of r.
Carries(x, r, nameKey) ==
  /\ Get(x, "transcription") = Str(OutcomeFor(r, "transcribe").text)
  /\ \A k \in AnalysisKinds : Get(x, k) = Analyse(k, OutcomeFor(r, k))
  /\ Get(x, nameKey) = Lit(req[r].originalname)

C21_ResponseIsOwn ==
  \A r \in {q \in Requests : Succeeded(q)} :
    /\ \A i \in 1..Len(req[r].trace) :
         (req[r].trace[i].e = "call" /\ req[r].trace[i].k \in AnalysisKinds)
         => req[r].trace[i].arg = OutcomeFor(r, "transcribe").text
    /\ Get(Body(req[r]), "success") = JTrue
    /\ Carries(Body(req[r]), r, "filename")

\* C21, whole: the same, and the Meeting stored under the request's id carries
\* them too.
C21_NeverMixed ==
  /\ C21_ResponseIsOwn
  /\ \A r \in {q \in Requests : Succeeded(q)} :
       Carries(MapGet(meetingDatabase, req[r].meetingId.s), r, "filename")

\* C22: a process-audio request that has been answered has put a Meeting into
\* the store if and only if it was answered with 200; one answered with 500
\* has put none.
C22_StatusAgreesWithStore ==
  \A r \in {q \in Requests : req[q].route = "process-audio" /\ req[q].pc = "done"} :
    /\ req[r].status = 200 <=> PutsBy(r) # {}
    /\ req[r].status = 500 => PutsBy(r) = {}

\* C23: no request is ever answered twice, a request is answered exactly when
\* its handler is done, and, every awaited operation settling in the end,
\* every request that has arrived is answered.
C23_ExactlyOneResponse ==
  /\ [](\A r \in Requests : req[r].sent <= 1 /\ (req[r].sent = 1 <=> req[r].pc = "done"))
  /\ \A r \in Requests : (req[r].pc # "idle") ~> (req[r].pc = "done" /\ req[r].sent = 1)

C23_Witness ==
  \E r1, r2 \in Requests :
    /\ req[r1].route = "process-audio" /\ req[r1].hasFile /\ req[r1].sent = 1
    /\ req[r1].status = 500 /\ PutsBy(r1) # {}
    /\ req[r2].route = "chat" /\ req[r2].sent = 1 /\ req[r2].status = 500

\* C24: a step changes the store only when it is the store step of a
\* process-audio request, the settling of its fact-check call, and then only
\* the record under that request's id; every other step, of a chat request, of
\* a GET request or of a process-audio request before or after its store
\* step, leaves the stored Meetings and their order as they are.
StoreStep(r) ==
  /\ req[r].route = "process-audio"
  /\ req[r].pc = "factCheck"
  /\ req'[r].pc \in {"unlink", "done"}

C24_OnlyStoreStepWrites ==
  [][/\ (\A r \in Requests : ~StoreStep(r)) => meetingDatabase' = meetingDatabase
     /\ \A r \in Requests :
          StoreStep(r)
          => /\ MapGet(meetingDatabase', req[r].meetingId.s) # Undefined
             /\ \A i \in 1..Len(meetingDatabase) :
                  meetingDatabase[i].k # req[r].meetingId.s
                  => meetingDatabase'[i] = meetingDatabase[i]]_vars

C24_Witness ==
  /\ Len(meetingDatabase) = 1
  /\ \E r \in Requests :
       /\ req[r].route = "chat"
       /\ req[r].meeting # Undefined
       /\ req[r].status = 200

====
